---- MODULE Spec2Model ----
(***************************************************************************)
(* Segment queries of the KCL standard library (std/segment.rs): segEnd,   *)
(* segEndX, segEndY, segStart, segStartX, segStartY, lastSegX, lastSegY,   *)
(* segLen, segAng, tangentToEnd, angleToMatchLengthX, angleToMatchLengthY. *)
(*                                                                         *)
(* The state is the sketch under construction, the tag bindings held by    *)
(* the evaluator, and the last query with the value it returned.           *)
(*                                                                         *)
(* Numbers.  An f64 is a record [cls, a, b]:                               *)
(*   "num"         the integer a                                           *)
(*   "sqrt"        sqrt(a), a not a perfect square                         *)
(*   "halfpi"      a * pi / 2                                              *)
(*   "sqrtq"       sqrt(a / b), in lowest terms       (a quotient >= 0)    *)
(*   "negsqrtq"    -sqrt(a / b), a > 0                (a quotient < 0)     *)
(*   "overpi"      a / (b * pi), a > 0                                     *)
(*   "negoverpi"   -a / (b * pi), a > 0                                    *)
(*   "pirad"       a * pi / b radians                                      *)
(*   "inf", "neginf", "nan"                                                *)
(*   "acos_*", "asin_*", "atan2"   a value of that function that is no     *)
(*                 rational multiple of pi, kept with its argument; the    *)
(*                 same in degrees is "deg_acos_*", "deg_asin_*",          *)
(*                 "deg_atan2".                                            *)
(***************************************************************************)
EXTENDS Integers, Sequences, FiniteSets, TLC

VARIABLES sketch, tags, query, result, trig

vars == <<sketch, tags, query, result, trig>>

\* Longest sketch (number of segments) the model builds.
MaxPaths == 2

\* Sketch coordinates range over -MaxCoord .. MaxCoord.
MaxCoord == 1

TagNames == {"seg01", "seg02"}

SourceRanges == {10, 20}

Coord == (0 - MaxCoord) .. MaxCoord

\* Target coordinates handed to angleToMatchLengthX / angleToMatchLengthY.
Targets == 0 .. (MaxCoord + 1)

(***************************************************************************)
(* f64 arithmetic                                                          *)
(***************************************************************************)
V(c, x, y) == [cls |-> c, a |-> x, b |-> y]

F(n) == V("num", n, 1)

NaN == V("nan", 0, 0)

Abs(n) == IF n < 0 THEN 0 - n ELSE n

RECURSIVE GCD(_, _)
GCD(m, n) == IF n = 0 THEN m ELSE GCD(n, m % n)

IsSquare(n) == \E k \in 0 .. n : k * k = n

IntSqrt(n) == CHOOSE k \in 0 .. n : k * k = n

\* f64::sqrt of a non-negative integer.
Sqrt(n) == IF IsSquare(n) THEN F(IntSqrt(n)) ELSE V("sqrt", n, 1)

\* The rational 355/113 is within 3e-7 of pi: for the small integers of the
\* model, m > c * pi  iff  113 * m > 355 * c.
GtPiTimes(m, c) == 113 * m > 355 * c

\* diff > length, diff an integer and length a value of Path::length.
Gt(diff, length) ==
    CASE length.cls = "num" -> diff > length.a
      [] length.cls = "sqrt" -> diff > 0 /\ diff * diff > length.a
      [] length.cls = "halfpi" -> GtPiTimes(2 * diff, length.a)
      [] OTHER -> FALSE

\* sqrt(p / q) with the sign of s, p >= 0, q > 0.
SignedSqrtQ(s, p, q) ==
    LET g == GCD(p, q) IN
    IF p = 0 THEN V("sqrtq", 0, 1)
    ELSE V(IF s < 0 THEN "negsqrtq" ELSE "sqrtq", p \div g, q \div g)

\* diff / length in f64: x / 0 is an infinity and 0 / 0 is NaN.
Div(diff, length) ==
    CASE length.cls = "num" /\ length.a = 0 ->
            IF diff = 0 THEN NaN
            ELSE IF diff > 0 THEN V("inf", 0, 0) ELSE V("neginf", 0, 0)
      [] length.cls = "num" /\ length.a # 0 ->
            SignedSqrtQ(diff, diff * diff, length.a * length.a)
      [] length.cls = "sqrt" -> SignedSqrtQ(diff, diff * diff, length.a)
      [] length.cls = "halfpi" ->
            LET g == GCD(2 * Abs(diff), length.a) IN
            IF diff = 0 THEN V("sqrtq", 0, 1)
            ELSE V(IF diff < 0 THEN "negoverpi" ELSE "overpi",
                   (2 * Abs(diff)) \div g, length.a \div g)
      [] OTHER -> NaN

\* 0 <= x <= 1, the domain on which acos and asin of a quotient >= 0 are defined.
InUnit(x) ==
    CASE x.cls = "sqrtq" -> x.a <= x.b
      [] x.cls = "overpi" -> ~ GtPiTimes(x.a, x.b)
      [] OTHER -> FALSE

\* -1 <= x <= 1, the domain of f64::acos and f64::asin.
InDomain(x) ==
    CASE x.cls \in {"sqrtq", "negsqrtq"} -> x.a <= x.b
      [] x.cls \in {"overpi", "negoverpi"} -> ~ GtPiTimes(x.a, x.b)
      [] OTHER -> FALSE

\* f64::acos, in radians; NaN outside [-1, 1].
Acos(x) ==
    IF ~ InDomain(x) THEN NaN
    ELSE CASE x.cls = "sqrtq" /\ <<x.a, x.b>> = <<1, 1>> -> V("pirad", 0, 1)
           [] x.cls = "sqrtq" /\ <<x.a, x.b>> = <<3, 4>> -> V("pirad", 1, 6)
           [] x.cls = "sqrtq" /\ <<x.a, x.b>> = <<1, 2>> -> V("pirad", 1, 4)
           [] x.cls = "sqrtq" /\ <<x.a, x.b>> = <<1, 4>> -> V("pirad", 1, 3)
           [] x.cls = "sqrtq" /\ <<x.a, x.b>> = <<0, 1>> -> V("pirad", 1, 2)
           [] x.cls = "negsqrtq" /\ <<x.a, x.b>> = <<1, 4>> -> V("pirad", 2, 3)
           [] x.cls = "negsqrtq" /\ <<x.a, x.b>> = <<1, 2>> -> V("pirad", 3, 4)
           [] x.cls = "negsqrtq" /\ <<x.a, x.b>> = <<3, 4>> -> V("pirad", 5, 6)
           [] x.cls = "negsqrtq" /\ <<x.a, x.b>> = <<1, 1>> -> V("pirad", 1, 1)
           [] x.cls = "sqrtq" -> V("acos_sqrtq", x.a, x.b)
           [] x.cls = "negsqrtq" -> V("acos_negsqrtq", x.a, x.b)
           [] x.cls = "overpi" -> V("acos_overpi", x.a, x.b)
           [] x.cls = "negoverpi" -> V("acos_negoverpi", x.a, x.b)

\* f64::asin, in radians; NaN outside [-1, 1].
Asin(x) ==
    IF ~ InDomain(x) THEN NaN
    ELSE CASE x.cls = "sqrtq" /\ <<x.a, x.b>> = <<1, 1>> -> V("pirad", 1, 2)
           [] x.cls = "sqrtq" /\ <<x.a, x.b>> = <<3, 4>> -> V("pirad", 1, 3)
           [] x.cls = "sqrtq" /\ <<x.a, x.b>> = <<1, 2>> -> V("pirad", 1, 4)
           [] x.cls = "sqrtq" /\ <<x.a, x.b>> = <<1, 4>> -> V("pirad", 1, 6)
           [] x.cls = "sqrtq" /\ <<x.a, x.b>> = <<0, 1>> -> V("pirad", 0, 1)
           [] x.cls = "negsqrtq" /\ <<x.a, x.b>> = <<1, 4>> -> V("pirad", -1, 6)
           [] x.cls = "negsqrtq" /\ <<x.a, x.b>> = <<1, 2>> -> V("pirad", -1, 4)
           [] x.cls = "negsqrtq" /\ <<x.a, x.b>> = <<3, 4>> -> V("pirad", -1, 3)
           [] x.cls = "negsqrtq" /\ <<x.a, x.b>> = <<1, 1>> -> V("pirad", -1, 2)
           [] x.cls = "sqrtq" -> V("asin_sqrtq", x.a, x.b)
           [] x.cls = "negsqrtq" -> V("asin_negsqrtq", x.a, x.b)
           [] x.cls = "overpi" -> V("asin_overpi", x.a, x.b)
           [] x.cls = "negoverpi" -> V("asin_negoverpi", x.a, x.b)

\* f64::atan2(y, x) of integers, in radians, in (-pi, pi]; atan2(0, 0) = 0.
Atan2(y, x) ==
    LET g == GCD(Abs(y), Abs(x)) IN
    CASE y = 0 /\ x >= 0 -> V("pirad", 0, 4)
      [] y = 0 /\ x < 0 -> V("pirad", 4, 4)
      [] x = 0 /\ y > 0 -> V("pirad", 2, 4)
      [] x = 0 /\ y < 0 -> V("pirad", -2, 4)
      [] x = y /\ x > 0 -> V("pirad", 1, 4)
      [] x = y /\ x < 0 -> V("pirad", -3, 4)
      [] x = 0 - y /\ x > 0 -> V("pirad", -1, 4)
      [] x = 0 - y /\ x < 0 -> V("pirad", 3, 4)
      [] OTHER -> V("atan2", y \div g, x \div g)

DegCls(c) ==
    CASE c = "acos_sqrtq" -> "deg_acos_sqrtq"
      [] c = "acos_negsqrtq" -> "deg_acos_negsqrtq"
      [] c = "acos_overpi" -> "deg_acos_overpi"
      [] c = "acos_negoverpi" -> "deg_acos_negoverpi"
      [] c = "asin_sqrtq" -> "deg_asin_sqrtq"
      [] c = "asin_negsqrtq" -> "deg_asin_negsqrtq"
      [] c = "asin_overpi" -> "deg_asin_overpi"
      [] c = "asin_negoverpi" -> "deg_asin_negoverpi"
      [] c = "atan2" -> "deg_atan2"
      [] OTHER -> c

\* f64::to_degrees and Angle::to_degrees of an angle held in radians: x * 180 / pi.
to_degrees(x) ==
    CASE x.cls = "pirad" -> F((180 * x.a) \div x.b)
      [] x.cls = "nan" -> NaN
      [] OTHER -> V(DegCls(x.cls), x.a, x.b)

\* Rust's % on integers: the remainder takes the sign of the dividend.
Rem(n, m) == IF n >= 0 THEN n % m ELSE 0 - ((0 - n) % m)

(***************************************************************************)
(* Sketches, segments and tag bindings (crate::execution)                  *)
(***************************************************************************)
Point(x, y) == <<x, y>>

\* Path::ToPoint: a straight line.
Line(from, to) == [kind |-> "ToPoint", base |-> [from |-> from, to |-> to]]

\* Path::TangentialArcTo: an arc about center, counter-clockwise iff ccw.
Arc(from, to, center, ccw) ==
    [kind |-> "TangentialArcTo", base |-> [from |-> from, to |-> to],
     center |-> center, ccw |-> ccw]

get_base(path) == path.base

get_from(path) == get_base(path).from

get_to(path) == get_base(path).to

DistSq(p, q) == (q[1] - p[1]) * (q[1] - p[1]) + (q[2] - p[2]) * (q[2] - p[2])

\* The quadrant index of an axis-aligned vector: 0 for +x, 1 for +y, 2 for -x, 3 for -y.
Quadrant(v) ==
    CASE v[2] = 0 /\ v[1] > 0 -> 0
      [] v[1] = 0 /\ v[2] > 0 -> 1
      [] v[2] = 0 /\ v[1] < 0 -> 2
      [] OTHER -> 3

\* Quarter turns swept by an arc from its start to its end in its own direction.
QuarterTurns(path) ==
    LET q0 == Quadrant(<<path.base.from[1] - path.center[1], path.base.from[2] - path.center[2]>>)
        q1 == Quadrant(<<path.base.to[1] - path.center[1], path.base.to[2] - path.center[2]>>)
    IN  IF path.ccw THEN (q1 - q0) % 4 ELSE (q0 - q1) % 4

\* Path::length: the straight length of a line, the arc length of an arc
\* (radius times swept angle; the arcs of the model start and end on the
\* axes through their center, so the radius is an integer).
length(path) ==
    IF path.kind = "ToPoint" THEN Sqrt(DistSq(get_from(path), get_to(path)))
    ELSE V("halfpi", IntSqrt(DistSq(path.center, get_to(path))) * QuarterTurns(path), 1)

\* Path::get_tangential_info: what the outgoing tangent is taken from.
get_tangential_info(path) ==
    IF path.kind = "ToPoint"
    THEN [type |-> "PreviousPoint", point |-> get_base(path).from]
    ELSE [type |-> "Arc", center |-> path.center, ccw |-> path.ccw]

\* A point behind last_arc_end on the tangent of the arc there: the radius
\* vector center -> last_arc_end turned a quarter turn against the sweep.
get_tangent_point_from_previous_arc(last_arc_center, last_arc_ccw, last_arc_end) ==
    LET rx == last_arc_end[1] - last_arc_center[1]
        ry == last_arc_end[2] - last_arc_center[2]
    IN  IF last_arc_ccw
        THEN Point(last_arc_end[1] + ry, last_arc_end[2] - rx)
        ELSE Point(last_arc_end[1] - ry, last_arc_end[2] + rx)

tan_previous_point(tangent_info, last_arc_end) ==
    IF tangent_info.type = "PreviousPoint" THEN tangent_info.point
    ELSE get_tangent_point_from_previous_arc(tangent_info.center, tangent_info.ccw, last_arc_end)

\* utils::normalize: an angle in degrees brought into (-180, 180].
normalize(deg) ==
    IF deg.cls = "num"
    THEN LET r == Rem(Rem(deg.a, 360) + 360, 360) IN F(IF r > 180 THEN r - 360 ELSE r)
    ELSE deg

\* utils::between: the angle of the vector a -> b, normalized.
between(a, b) == normalize(to_degrees(Atan2(b[2] - a[2], b[1] - a[1])))

\* Option
None == [some |-> FALSE]

Some(v) == [some |-> TRUE, value |-> v]

\* Result
NoError == [class |-> "", message |-> "", source_ranges |-> <<>>]

Ok(v) == [ok |-> TRUE, val |-> v, err |-> NoError]

Err(e) == [ok |-> FALSE, val |-> <<>>, err |-> e]

\* KclError::Type(KclErrorDetails { message, source_ranges })
KclErrorType(message, source_ranges) ==
    [class |-> "Type", message |-> message, source_ranges |-> source_ranges]

\* A tag that was never declared, and TagEngineInfo { path, .. }.
Unbound == [bound |-> FALSE, path |-> None]

TagEngineInfo(path) == [bound |-> TRUE, path |-> path]

\* Args::get_tag_engine_info: the binding of the tag in the evaluator's memory.
get_tag_engine_info(args, exec_state, tag) ==
    IF exec_state[tag].bound THEN Ok(exec_state[tag])
    ELSE Err(KclErrorType("Tag does not have engine info", <<args.source_range>>))

Args(sr) == [source_range |-> sr]

(***************************************************************************)
(* std/segment.rs                                                          *)
(***************************************************************************)
\* A faulty line_path: a missing path is replaced by a default one (unwrap_or_default).
line_path_or_default(line, args) ==
    IF line.path.some THEN Ok(line.path.value)
    ELSE Ok(Line(Point(0, 0), Point(0, 0)))

\* line.path.clone().ok_or_else(|| KclError::Type(..)): the path of the
\* tagged value, or the error of a tag whose value has no path.
line_path(line, args) ==
    IF line.path.some THEN Ok(line.path.value)
    ELSE Err(KclErrorType("Expected a line segment with a path", <<args.source_range>>))

\* get_tag_engine_info(..)? followed by line.path...ok_or_else(..)?
tag_path(tag, exec_state, args) ==
    LET line == get_tag_engine_info(args, exec_state, tag) IN
    IF line.ok THEN line_path(line.val, args) ELSE line

\* A faulty last_path: the first segment is taken, and the start of the
\* profile when there is none.
first_path_or_start(sk, args) ==
    IF Len(sk.paths) > 0 THEN Ok(sk.paths[1])
    ELSE Ok(Line(sk.start, sk.start))

\* sketch.paths.last().ok_or_else(|| KclError::Type(..)): the last segment
\* of the sketch, or the error of a sketch without segments.
last_path(sk, args) ==
    IF Len(sk.paths) > 0 THEN Ok(sk.paths[Len(sk.paths)])
    ELSE Err(KclErrorType("Expected a Sketch with at least one segment", <<args.source_range>>))

PointVal(p) == <<F(p[1]), F(p[2])>>

inner_segment_end(tag, exec_state, args) ==
    LET path == tag_path(tag, exec_state, args) IN
    IF path.ok THEN Ok(PointVal(get_base(path.val).to)) ELSE path

inner_segment_end_x(tag, exec_state, args) ==
    LET path == tag_path(tag, exec_state, args) IN
    IF path.ok THEN Ok(F(get_base(path.val).to[1])) ELSE path

\* A faulty inner_segment_end_y: the x component is selected.
inner_segment_end_y_wrong_index(tag, exec_state, args) ==
    LET path == tag_path(tag, exec_state, args) IN
    IF path.ok THEN Ok(F(get_to(path.val)[1])) ELSE path

inner_segment_end_y(tag, exec_state, args) ==
    LET path == tag_path(tag, exec_state, args) IN
    IF path.ok THEN Ok(F(get_to(path.val)[2])) ELSE path

inner_segment_start(tag, exec_state, args) ==
    LET path == tag_path(tag, exec_state, args) IN
    IF path.ok THEN Ok(PointVal(get_from(path.val))) ELSE path

inner_segment_start_x(tag, exec_state, args) ==
    LET path == tag_path(tag, exec_state, args) IN
    IF path.ok THEN Ok(F(get_from(path.val)[1])) ELSE path

inner_segment_start_y(tag, exec_state, args) ==
    LET path == tag_path(tag, exec_state, args) IN
    IF path.ok THEN Ok(F(get_from(path.val)[2])) ELSE path

inner_last_segment_x(sk, args) ==
    LET last_line == last_path(sk, args) IN
    IF last_line.ok THEN Ok(F(get_base(last_line.val).to[1])) ELSE last_line

inner_last_segment_y(sk, args) ==
    LET last_line == last_path(sk, args) IN
    IF last_line.ok THEN Ok(F(get_base(last_line.val).to[2])) ELSE last_line

inner_segment_length(tag, exec_state, args) ==
    LET path == tag_path(tag, exec_state, args) IN
    IF path.ok THEN Ok(length(path.val)) ELSE path

\* A faulty inner_segment_angle: the angle is taken from `to` to `from`.
inner_segment_angle_reversed(tag, exec_state, args) ==
    LET path == tag_path(tag, exec_state, args) IN
    IF path.ok THEN Ok(between(get_to(path.val), get_from(path.val))) ELSE path

inner_segment_angle(tag, exec_state, args) ==
    LET path == tag_path(tag, exec_state, args) IN
    IF path.ok THEN Ok(between(get_from(path.val), get_to(path.val))) ELSE path

\* A faulty inner_tangent_to_end: the arguments of atan2 are exchanged.
inner_tangent_to_end_swapped(tag, exec_state, args) ==
    LET path == tag_path(tag, exec_state, args) IN
    IF path.ok
    THEN LET from == get_to(path.val)
             tangent_info == get_tangential_info(path.val)
             tan_previous == tan_previous_point(tangent_info, from)
             previous_end_tangent ==
                 Atan2(from[1] - tan_previous[1], from[2] - tan_previous[2])
         IN  Ok(to_degrees(previous_end_tangent))
    ELSE path

inner_tangent_to_end(tag, exec_state, args) ==
    LET path == tag_path(tag, exec_state, args) IN
    IF path.ok
    THEN LET from == get_to(path.val)
             tangent_info == get_tangential_info(path.val)
             tan_previous == tan_previous_point(tangent_info, from)
             previous_end_tangent ==
                 Atan2(from[2] - tan_previous[2], from[1] - tan_previous[1])
         IN  Ok(to_degrees(previous_end_tangent))
    ELSE path

\* What a query hands back to its caller, with the calls of acos / asin it made.
Ret(r, calls) == [ret |-> r, calls |-> calls]

TrigCall(fn, arg) == [fn |-> fn, arg |-> arg]

\* A faulty inner_angle_to_match_length_x: the test diff > length is missing.
inner_angle_to_match_length_x_unguarded(tag, to, sk, exec_state, args) ==
    LET path == tag_path(tag, exec_state, args)
        last_line == last_path(sk, args)
    IN  IF ~ path.ok THEN Ret(path, <<>>)
        ELSE IF ~ last_line.ok THEN Ret(last_line, <<>>)
        ELSE LET len == length(path.val)
                 diff == Abs(to - get_base(last_line.val).to[1])
                 angle_r == Acos(Div(diff, len))
             IN  Ret(Ok(to_degrees(angle_r)), <<TrigCall("acos", Div(diff, len))>>)

\* A faulty inner_angle_to_match_length_x: the sketch is checked before the tag.
inner_angle_to_match_length_x_sketch_first(tag, to, sk, exec_state, args) ==
    LET path == tag_path(tag, exec_state, args)
        last_line == last_path(sk, args)
    IN  IF ~ last_line.ok THEN Ret(last_line, <<>>)
        ELSE IF ~ path.ok THEN Ret(path, <<>>)
        ELSE LET len == length(path.val)
                 diff == Abs(to - get_base(last_line.val).to[1])
                 angle_r == Acos(Div(diff, len))
             IN  Ret(IF Gt(diff, len) THEN Ok(F(0)) ELSE Ok(to_degrees(angle_r)),
                     <<TrigCall("acos", Div(diff, len))>>)

inner_angle_to_match_length_x(tag, to, sk, exec_state, args) ==
    LET path == tag_path(tag, exec_state, args)
        last_line == last_path(sk, args)
    IN  IF ~ path.ok THEN Ret(path, <<>>)
        ELSE IF ~ last_line.ok THEN Ret(last_line, <<>>)
        ELSE LET len == length(path.val)
                 diff == Abs(to - get_base(last_line.val).to[1])
                 angle_r == Acos(Div(diff, len))
             IN  Ret(IF Gt(diff, len) THEN Ok(F(0)) ELSE Ok(to_degrees(angle_r)),
                     <<TrigCall("acos", Div(diff, len))>>)

\* A faulty inner_angle_to_match_length_y: the difference is not made absolute.
inner_angle_to_match_length_y_signed(tag, to, sk, exec_state, args) ==
    LET path == tag_path(tag, exec_state, args)
        last_line == last_path(sk, args)
    IN  IF ~ path.ok THEN Ret(path, <<>>)
        ELSE IF ~ last_line.ok THEN Ret(last_line, <<>>)
        ELSE LET len == length(path.val)
                 diff == to - get_base(last_line.val).to[2]
                 angle_r == Asin(Div(diff, len))
             IN  Ret(IF Gt(diff, len) THEN Ok(F(0)) ELSE Ok(to_degrees(angle_r)),
                     <<TrigCall("asin", Div(diff, len))>>)

\* A faulty inner_angle_to_match_length_y: acos, copied from the X variant.
inner_angle_to_match_length_y_acos(tag, to, sk, exec_state, args) ==
    LET path == tag_path(tag, exec_state, args)
        last_line == last_path(sk, args)
    IN  IF ~ path.ok THEN Ret(path, <<>>)
        ELSE IF ~ last_line.ok THEN Ret(last_line, <<>>)
        ELSE LET len == length(path.val)
                 diff == Abs(to - get_base(last_line.val).to[2])
                 angle_r == Acos(Div(diff, len))
             IN  Ret(IF Gt(diff, len) THEN Ok(F(0)) ELSE Ok(to_degrees(angle_r)),
                     <<TrigCall("asin", Div(diff, len))>>)

inner_angle_to_match_length_y(tag, to, sk, exec_state, args) ==
    LET path == tag_path(tag, exec_state, args)
        last_line == last_path(sk, args)
    IN  IF ~ path.ok THEN Ret(path, <<>>)
        ELSE IF ~ last_line.ok THEN Ret(last_line, <<>>)
        ELSE LET len == length(path.val)
                 diff == Abs(to - get_base(last_line.val).to[2])
                 angle_r == Asin(Div(diff, len))
             IN  Ret(IF Gt(diff, len) THEN Ok(F(0)) ELSE Ok(to_degrees(angle_r)),
                     <<TrigCall("asin", Div(diff, len))>>)

(***************************************************************************)
(* The state machine                                                       *)
(***************************************************************************)
NoQuery == [op |-> "", tag |-> "", to |-> 0, source_range |-> 0]

NoResult == [ok |-> FALSE, val |-> <<>>, err |-> NoError]

Query(op, tag, to, sr) == [op |-> op, tag |-> tag, to |-> to, source_range |-> sr]

\* A call that is also handed a sketch.
QueryOn(op, tag, to, sk, sr) ==
    [op |-> op, tag |-> tag, to |-> to, sketch |-> sk, source_range |-> sr]

\* startProfileAt: the profile starts on the left edge of the grid.
StartPoint == Point(0 - MaxCoord, 0)

\* A profile that has been started and has no segment yet.
NewSketch == [start |-> StartPoint, paths |-> <<>>]

Init ==
    /\ sketch = NewSketch
    /\ tags = [t \in TagNames |-> Unbound]
    /\ query = NoQuery
    /\ result = NoResult
    /\ trig = <<>>

\* The evaluator runs one call at a time: no call is under way.
Idle == query = NoQuery

InGrid(p) == p[1] \in Coord /\ p[2] \in Coord

\* Where the next segment starts: the end of the last one, or the start of the profile.
CurrentPoint ==
    IF Len(sketch.paths) = 0 THEN sketch.start ELSE get_to(sketch.paths[Len(sketch.paths)])

Moves == {-1, 0, 1} \X {-1, 0, 1}

UnitMoves == {<<1, 0>>, <<0, 1>>, <<-1, 0>>, <<0, -1>>}

\* The lines that may follow: from the current point by a move of the grid.
NextLines ==
    {Line(CurrentPoint, Point(CurrentPoint[1] + d[1], CurrentPoint[2] + d[2])) : d \in Moves}

\* The arcs that may follow: a quarter turn about a center one unit away.
QuarterArc(from, u, ccw) ==
    LET center == Point(from[1] + u[1], from[2] + u[2])
        to == IF ccw THEN Point(center[1] + u[2], center[2] - u[1])
                     ELSE Point(center[1] - u[2], center[2] + u[1])
    IN  Arc(from, to, center, ccw)

NextArcs == {QuarterArc(CurrentPoint, u, ccw) : u \in UnitMoves, ccw \in BOOLEAN}

NextPaths == {p \in NextLines \cup NextArcs : InGrid(get_to(p))}

\* The evaluator appends a segment to the sketch, declaring a fresh tag for it or none.
AppendSegment ==
    /\ Idle
    /\ Len(sketch.paths) < MaxPaths
    /\ \E p \in NextPaths :
          /\ sketch' = [sketch EXCEPT !.paths = Append(@, p)]
          /\ \/ tags' = tags
             \/ \E t \in TagNames :
                   /\ ~ tags[t].bound
                   /\ tags' = [tags EXCEPT ![t] = TagEngineInfo(Some(p))]
    /\ query' = NoQuery
    /\ result' = NoResult
    /\ trig' = <<>>

\* The evaluator binds a tag to a value that has no path.
BindTagWithoutPath ==
    /\ Idle
    /\ \E t \in TagNames :
          /\ ~ tags[t].bound
          /\ tags' = [tags EXCEPT ![t] = TagEngineInfo(None)]
    /\ query' = NoQuery
    /\ result' = NoResult
    /\ trig' = <<>>
    /\ UNCHANGED sketch

\* The sketches a query may be handed: the one under construction, or a new one
\* (the tag of a query need not belong to the sketch it is handed).
SketchArgs == {sketch, NewSketch}

segment_end ==
    \E tag \in TagNames, sr \in SourceRanges :
       /\ Idle
       /\ query' = Query("segEnd", tag, 0, sr)
       /\ result' = inner_segment_end(tag, tags, Args(sr))
       /\ trig' = <<>>
       /\ UNCHANGED <<sketch, tags>>

segment_end_x ==
    \E tag \in TagNames, sr \in SourceRanges :
       /\ Idle
       /\ query' = Query("segEndX", tag, 0, sr)
       /\ result' = inner_segment_end_x(tag, tags, Args(sr))
       /\ trig' = <<>>
       /\ UNCHANGED <<sketch, tags>>

segment_end_y ==
    \E tag \in TagNames, sr \in SourceRanges :
       /\ Idle
       /\ query' = Query("segEndY", tag, 0, sr)
       /\ result' = inner_segment_end_y(tag, tags, Args(sr))
       /\ trig' = <<>>
       /\ UNCHANGED <<sketch, tags>>

segment_start ==
    \E tag \in TagNames, sr \in SourceRanges :
       /\ Idle
       /\ query' = Query("segStart", tag, 0, sr)
       /\ result' = inner_segment_start(tag, tags, Args(sr))
       /\ trig' = <<>>
       /\ UNCHANGED <<sketch, tags>>

segment_start_x ==
    \E tag \in TagNames, sr \in SourceRanges :
       /\ Idle
       /\ query' = Query("segStartX", tag, 0, sr)
       /\ result' = inner_segment_start_x(tag, tags, Args(sr))
       /\ trig' = <<>>
       /\ UNCHANGED <<sketch, tags>>

segment_start_y ==
    \E tag \in TagNames, sr \in SourceRanges :
       /\ Idle
       /\ query' = Query("segStartY", tag, 0, sr)
       /\ result' = inner_segment_start_y(tag, tags, Args(sr))
       /\ trig' = <<>>
       /\ UNCHANGED <<sketch, tags>>

\* A faulty last_segment_x: the last segment is popped off the sketch (pop for last).
last_segment_x_pops ==
    \E sr \in SourceRanges :
       /\ Idle
       /\ query' = Query("lastSegX", "", 0, sr)
       /\ result' = inner_last_segment_x(sketch, Args(sr))
       /\ trig' = <<>>
       /\ sketch' = [sketch EXCEPT !.paths =
                         IF Len(@) > 0 THEN SubSeq(@, 1, Len(@) - 1) ELSE @]
       /\ UNCHANGED tags

last_segment_x ==
    \E sr \in SourceRanges :
       /\ Idle
       /\ query' = Query("lastSegX", "", 0, sr)
       /\ result' = inner_last_segment_x(sketch, Args(sr))
       /\ trig' = <<>>
       /\ UNCHANGED <<sketch, tags>>

last_segment_y ==
    \E sr \in SourceRanges :
       /\ Idle
       /\ query' = Query("lastSegY", "", 0, sr)
       /\ result' = inner_last_segment_y(sketch, Args(sr))
       /\ trig' = <<>>
       /\ UNCHANGED <<sketch, tags>>

segment_length ==
    \E tag \in TagNames, sr \in SourceRanges :
       /\ Idle
       /\ query' = Query("segLen", tag, 0, sr)
       /\ result' = inner_segment_length(tag, tags, Args(sr))
       /\ trig' = <<>>
       /\ UNCHANGED <<sketch, tags>>

segment_angle ==
    \E tag \in TagNames, sr \in SourceRanges :
       /\ Idle
       /\ query' = Query("segAng", tag, 0, sr)
       /\ result' = inner_segment_angle(tag, tags, Args(sr))
       /\ trig' = <<>>
       /\ UNCHANGED <<sketch, tags>>

tangent_to_end ==
    \E tag \in TagNames, sr \in SourceRanges :
       /\ Idle
       /\ query' = Query("tangentToEnd", tag, 0, sr)
       /\ result' = inner_tangent_to_end(tag, tags, Args(sr))
       /\ trig' = <<>>
       /\ UNCHANGED <<sketch, tags>>

angle_to_match_length_x ==
    \E tag \in TagNames, to \in Targets, sk \in SketchArgs, sr \in SourceRanges :
       LET r == inner_angle_to_match_length_x(tag, to, sk, tags, Args(sr)) IN
       /\ Idle
       /\ query' = QueryOn("angleToMatchLengthX", tag, to, sk, sr)
       /\ result' = r.ret
       /\ trig' = r.calls
       /\ UNCHANGED <<sketch, tags>>

angle_to_match_length_y ==
    \E tag \in TagNames, to \in Targets, sk \in SketchArgs, sr \in SourceRanges :
       LET r == inner_angle_to_match_length_y(tag, to, sk, tags, Args(sr)) IN
       /\ Idle
       /\ query' = QueryOn("angleToMatchLengthY", tag, to, sk, sr)
       /\ result' = r.ret
       /\ trig' = r.calls
       /\ UNCHANGED <<sketch, tags>>

\* The value or the error of the call goes back to the evaluator.
ReturnToEvaluator ==
    /\ ~ Idle
    /\ query' = NoQuery
    /\ result' = NoResult
    /\ trig' = <<>>
    /\ UNCHANGED <<sketch, tags>>

Next ==
    \/ AppendSegment
    \/ BindTagWithoutPath
    \/ segment_end
    \/ segment_end_x
    \/ segment_end_y
    \/ segment_start
    \/ segment_start_x
    \/ segment_start_y
    \/ last_segment_x
    \/ last_segment_y
    \/ segment_length
    \/ segment_angle
    \/ tangent_to_end
    \/ angle_to_match_length_x
    \/ angle_to_match_length_y
    \/ ReturnToEvaluator

Spec == Init /\ [][Next]_vars

(***************************************************************************)
(* Properties                                                              *)
(***************************************************************************)
TagOps ==
    {"segEnd", "segEndX", "segEndY", "segStart", "segStartX", "segStartY", "segLen",
     "segAng", "tangentToEnd", "angleToMatchLengthX", "angleToMatchLengthY"}

AngleOps == {"angleToMatchLengthX", "angleToMatchLengthY"}

\* The tag of the query is bound to a value that has a path.
Resolved == query.tag \in TagNames /\ tags[query.tag].bound /\ tags[query.tag].path.some

TaggedPath == tags[query.tag].path.value

LastPath == sketch.paths[Len(sketch.paths)]

TypeErrorAtQuery ==
    /\ ~ result.ok
    /\ result.val = <<>>
    /\ result.err.class = "Type"
    /\ result.err.source_ranges = <<query.source_range>>

\* C1: a tag-based query whose tag is unbound, or bound to a value without a
\* path, returns a Type error that carries the source range of the query,
\* and returns no point and no number.
C1_UnresolvedTagIsTypeError ==
    (query.op \in TagOps /\ ~ Resolved) => TypeErrorAtQuery

\* C1 witness: tangentToEnd was asked of a tag bound to a value without a path.
C1_Witness ==
    /\ query.op = "tangentToEnd"
    /\ tags[query.tag].bound
    /\ ~ tags[query.tag].path.some
    /\ query.source_range = 20
    /\ TypeErrorAtQuery

\* C2: lastSegX and lastSegY on a sketch without segments fail with the
\* Type error "Expected a Sketch with at least one segment" at the source
\* range of the query; no value is returned.
C2_EmptySketchIsTypeError ==
    (query.op \in {"lastSegX", "lastSegY"} /\ Len(sketch.paths) = 0) =>
        /\ TypeErrorAtQuery
        /\ result.err.message = "Expected a Sketch with at least one segment"

\* C2 witness: lastSegY was asked of the empty sketch and failed.
C2_Witness ==
    /\ query.op = "lastSegY"
    /\ Len(sketch.paths) = 0
    /\ ~ result.ok
    /\ result.err.source_ranges = <<10>>

\* The queries angleToMatchLengthX / Y got past their three checks.
AngleCase == query.op \in AngleOps /\ Resolved /\ Len(query.sketch.paths) > 0

Axis == IF query.op = "angleToMatchLengthX" THEN 1 ELSE 2

\* diff = |target - P[axis]| and L, as the claims define them.
ClaimDiff == Abs(query.to - query.sketch.paths[Len(query.sketch.paths)].base.to[Axis])

ClaimLength == length(TaggedPath)

\* C3: in angleToMatchLengthX / Y, whenever diff > L the query succeeds and
\* returns exactly 0.
C3_UnreachableTargetGivesZero ==
    (AngleCase /\ Gt(ClaimDiff, ClaimLength)) => result = Ok(F(0))

\* C3 witness: the tagged segment is not the last one, it has length 1, and the
\* target is 2 away from the end of the sketch.
C3_Witness ==
    /\ AngleCase
    /\ query.op = "angleToMatchLengthX"
    /\ TaggedPath # LastPath
    /\ ClaimLength = F(1)
    /\ ClaimDiff = 2
    /\ result = Ok(F(0))

\* C4 as stated: acos / asin is called only with an argument in [0, 1].
C4_TrigArgumentInUnitInterval ==
    \A i \in DOMAIN trig : InUnit(trig[i].arg)

\* C4 as amended: acos / asin is called before diff > L is tested, so also
\* with diff / L > 1; but whenever diff <= L and L > 0, where the value of
\* the call is the one returned, the argument it got lies in [0, 1].
C4_ReturnedTrigArgumentInUnitInterval ==
    (AngleCase /\ ~ Gt(ClaimDiff, ClaimLength) /\ ClaimLength # F(0)) =>
        /\ Len(trig) = 1
        /\ trig[1].fn = (IF Axis = 1 THEN "acos" ELSE "asin")
        /\ InUnit(trig[1].arg)

\* C4 witness: asin was called with 1 / sqrt(2) (diff = 1, L = sqrt(2)) and
\* its value, 45 degrees, returned.
C4_Witness ==
    /\ AngleCase
    /\ query.op = "angleToMatchLengthY"
    /\ ClaimDiff = 1
    /\ ClaimLength = V("sqrt", 2, 1)
    /\ trig = <<TrigCall("asin", V("sqrtq", 1, 2))>>
    /\ result = Ok(F(45))

\* The angle in degrees whose cosine (axis 1) or sine (axis 2) is d / L, for
\* the tagged segment p of length L > 0 and 0 <= d <= L; r is the value returned.
IsAngleOfQuotient(r, d, p, axis) ==
    IF p.kind = "ToPoint"
    THEN LET n == DistSq(p.base.from, p.base.to) IN
         CASE d * d = n -> r = F(IF axis = 1 THEN 0 ELSE 90)
           [] d = 0 -> r = F(IF axis = 1 THEN 90 ELSE 0)
           [] 4 * d * d = n -> r = F(IF axis = 1 THEN 60 ELSE 30)
           [] 2 * d * d = n -> r = F(45)
           [] 4 * d * d = 3 * n -> r = F(IF axis = 1 THEN 30 ELSE 60)
           [] OTHER -> /\ r.cls = (IF axis = 1 THEN "deg_acos_sqrtq" ELSE "deg_asin_sqrtq")
                       /\ r.a * n = r.b * d * d
    ELSE LET c == IntSqrt(DistSq(p.center, p.base.to)) * QuarterTurns(p) IN
         IF d = 0 THEN r = F(IF axis = 1 THEN 90 ELSE 0)
         ELSE /\ r.cls = (IF axis = 1 THEN "deg_acos_overpi" ELSE "deg_asin_overpi")
              /\ r.a * c = r.b * 2 * d

\* C5 as stated, its last part: diff = L gives 0 degrees for the X variant and
\* 90 degrees for the Y variant.
C5_DiffEqualLengthGivesZeroOrNinety ==
    (AngleCase /\ ClaimLength = F(ClaimDiff)) =>
        result = Ok(F(IF Axis = 1 THEN 0 ELSE 90))

\* C5 as amended: when diff <= L and L > 0, angleToMatchLengthX returns
\* acos(diff / L) and angleToMatchLengthY asin(diff / L), in degrees, so that
\* diff = L gives 0 and 90 degrees; when diff = L = 0 the quotient is 0 / 0
\* and both return NaN.
C5_AngleOfQuotientInDegrees ==
    (AngleCase /\ ~ Gt(ClaimDiff, ClaimLength)) =>
        /\ result.ok
        /\ IF ClaimLength = F(0) THEN result.val = NaN
           ELSE IsAngleOfQuotient(result.val, ClaimDiff, TaggedPath, Axis)

\* C5 witness: angleToMatchLengthY with diff = L = 1 returned 90 degrees.
C5_Witness ==
    /\ AngleCase
    /\ query.op = "angleToMatchLengthY"
    /\ ClaimLength = F(1)
    /\ ClaimDiff = 1
    /\ result = Ok(F(90))

\* C6: for a tag that resolves to a segment of any kind, segStart is the
\* `from` point of its base record and segEnd the `to` point, and segStartX,
\* segStartY, segEndX, segEndY are their components.
C6_EndpointsAreBaseFromTo ==
    Resolved =>
        LET base == TaggedPath.base IN
        /\ query.op = "segStart" => result = Ok(<<F(base.from[1]), F(base.from[2])>>)
        /\ query.op = "segEnd" => result = Ok(<<F(base.to[1]), F(base.to[2])>>)
        /\ query.op = "segStartX" => result = Ok(F(base.from[1]))
        /\ query.op = "segStartY" => result = Ok(F(base.from[2]))
        /\ query.op = "segEndX" => result = Ok(F(base.to[1]))
        /\ query.op = "segEndY" => result = Ok(F(base.to[2]))

\* C6 witness: segEndY of an arc whose end has different x and y.
C6_Witness ==
    /\ query.op = "segEndY"
    /\ Resolved
    /\ TaggedPath.kind = "TangentialArcTo"
    /\ TaggedPath.base.to[1] # TaggedPath.base.to[2]
    /\ result = Ok(F(TaggedPath.base.to[2]))

\* C7: on a sketch of one or more segments, lastSegX and lastSegY return the
\* x and the y of the `to` point of the segment appended last.
C7_LastSegmentIsLastAppended ==
    Len(sketch.paths) > 0 =>
        /\ query.op = "lastSegX" => result = Ok(F(LastPath.base.to[1]))
        /\ query.op = "lastSegY" => result = Ok(F(LastPath.base.to[2]))

\* C7 witness: lastSegX of a two-segment sketch whose segments end at different x.
C7_Witness ==
    /\ query.op = "lastSegX"
    /\ Len(sketch.paths) = 2
    /\ sketch.paths[1].base.to[1] # sketch.paths[2].base.to[1]
    /\ result = Ok(F(sketch.paths[2].base.to[1]))

Cross(u, v) == u[1] * v[2] - u[2] * v[1]

Dot(u, v) == u[1] * v[1] + u[2] * v[2]

Vec(p, q) == <<q[1] - p[1], q[2] - p[2]>>

\* Segment q is a straight line that starts where p ends and leaves in the
\* direction in which p arrives: along p if p is a line, at a right angle to
\* the radius at the end of p, on the side of the sweep, if p is an arc.
StraightContinuation(p, q) ==
    LET d == Vec(q.base.from, q.base.to) IN
    /\ q.kind = "ToPoint"
    /\ q.base.from = p.base.to
    /\ d # <<0, 0>>
    /\ IF p.kind = "ToPoint"
       THEN LET e == Vec(p.base.from, p.base.to) IN Cross(e, d) = 0 /\ Dot(e, d) > 0
       ELSE LET r == Vec(p.center, p.base.to) IN
            /\ Dot(r, d) = 0
            /\ IF p.ccw THEN Cross(r, d) > 0 ELSE Cross(r, d) < 0

\* C8: in a two-segment sketch whose segment 2 is a straight continuation
\* tangent to segment 1, tangentToEnd of segment 1 equals segAng of segment 2;
\* for a straight segment 1 it is the direction atan2(to.y - from.y,
\* to.x - from.x) of segment 1, in degrees.
C8_TangentToEndIsNextSegmentAngle ==
    (/\ query.op = "tangentToEnd"
     /\ Resolved
     /\ Len(sketch.paths) = 2
     /\ TaggedPath = sketch.paths[1]
     /\ StraightContinuation(sketch.paths[1], sketch.paths[2])) =>
        /\ result.ok
        /\ \A t \in TagNames :
              tags[t] = TagEngineInfo(Some(sketch.paths[2])) =>
                  result = inner_segment_angle(t, tags, Args(query.source_range))
        /\ TaggedPath.kind = "ToPoint" =>
              result.val = to_degrees(Atan2(TaggedPath.base.to[2] - TaggedPath.base.from[2],
                                            TaggedPath.base.to[1] - TaggedPath.base.from[1]))

\* C8 witness: segment 1 is an arc, segment 2 the tagged line that continues
\* it, and tangentToEnd of segment 1 is the angle of segment 2.
C8_Witness ==
    /\ query.op = "tangentToEnd"
    /\ Resolved
    /\ Len(sketch.paths) = 2
    /\ TaggedPath = sketch.paths[1]
    /\ TaggedPath.kind = "TangentialArcTo"
    /\ StraightContinuation(sketch.paths[1], sketch.paths[2])
    /\ \E t \in TagNames :
          /\ tags[t] = TagEngineInfo(Some(sketch.paths[2]))
          /\ result = inner_segment_angle(t, tags, Args(query.source_range))

\* C8 witness for a straight segment 1 is the same state with a line.
C8_WitnessStraight ==
    /\ query.op = "tangentToEnd"
    /\ Resolved
    /\ Len(sketch.paths) = 2
    /\ TaggedPath = sketch.paths[1]
    /\ TaggedPath.kind = "ToPoint"
    /\ StraightContinuation(sketch.paths[1], sketch.paths[2])
    /\ result = Ok(F(0))

\* The tag of a segAng query resolves to a straight segment from (0, 0) to (0, h).
VerticalFromOrigin ==
    /\ query.op = "segAng"
    /\ Resolved
    /\ TaggedPath.kind = "ToPoint"
    /\ TaggedPath.base.from = <<0, 0>>
    /\ TaggedPath.base.to[1] = 0

\* C9 as stated: segAng of a straight segment from (0, 0) to (0, h) is 90 degrees.
C9_VerticalSegmentAngleIsNinety ==
    VerticalFromOrigin => result = Ok(F(90))

\* C9 as amended: segAng of a straight segment from (0, 0) to (0, h) is 90
\* degrees when h > 0; it is -90 degrees when h < 0 and 0 when h = 0.
C9_UpwardSegmentAngleIsNinety ==
    VerticalFromOrigin =>
        result = Ok(F(CASE TaggedPath.base.to[2] > 0 -> 90
                        [] TaggedPath.base.to[2] < 0 -> -90
                        [] OTHER -> 0))

\* C9 witness: segAng of the segment from (0, 0) to (0, 1) returned 90.
C9_Witness ==
    /\ VerticalFromOrigin
    /\ TaggedPath.base.to[2] = 1
    /\ result = Ok(F(90))

\* C10: no query changes what it reads: a step that runs a query, whether
\* it returns a value or an error, leaves the segments of the sketch and the
\* bindings of the tags as they were.
C10_QueriesLeaveSketchAndTags ==
    [][query' # NoQuery => (sketch' = sketch /\ tags' = tags)]_vars

\* C10 witness: a query failed on a sketch that has segments and a bound tag.
C10_Witness ==
    /\ query.op = "angleToMatchLengthX"
    /\ ~ result.ok
    /\ Len(sketch.paths) = 2
    /\ \E t \in TagNames : tags[t] = TagEngineInfo(Some(sketch.paths[1]))

\* C11: angleToMatchLengthX / Y check, in this order, that the tag is bound,
\* that its value has a path, and that the sketch has a segment, and the
\* first check that fails gives the error: an empty sketch gives the Type
\* error "Expected a Sketch with at least one segment", never 0 or an angle,
\* and a tag that does not resolve gives the error of the tag, whether the
\* sketch is empty or not.
C11_FirstFailingCheckGivesError ==
    query.op \in AngleOps =>
        LET args == Args(query.source_range)
            info == tags[query.tag]
        IN  /\ ~ info.bound =>
                  result = get_tag_engine_info(args, tags, query.tag) /\ ~ result.ok
            /\ (info.bound /\ ~ info.path.some) =>
                  result = Err(KclErrorType("Expected a line segment with a path",
                                            <<query.source_range>>))
            /\ (Resolved /\ Len(query.sketch.paths) = 0) =>
                  result = Err(KclErrorType("Expected a Sketch with at least one segment",
                                            <<query.source_range>>))
            /\ (~ Resolved \/ Len(query.sketch.paths) = 0) => (~ result.ok /\ trig = <<>>)

\* C11 witness: the tag resolves to a segment, the sketch handed to
\* angleToMatchLengthY is empty, and the query failed with the sketch's error.
C11_Witness ==
    /\ query.op = "angleToMatchLengthY"
    /\ Resolved
    /\ Len(query.sketch.paths) = 0
    /\ ~ result.ok
    /\ result.err.message = "Expected a Sketch with at least one segment"

\* C11, its other case: the tag has no path and the sketch is empty, and the
\* error is that of the tag.
C11_WitnessBoth ==
    /\ query.op = "angleToMatchLengthX"
    /\ tags[query.tag].bound
    /\ ~ Resolved
    /\ Len(query.sketch.paths) = 0
    /\ result.err.message = "Expected a line segment with a path"

====
